---------------------------- MODULE Spec2Model ----------------------------
(***************************************************************************)
(* A model of the SequenceAnalyzer engine of the Echo Chamber project      *)
(* (src/echo-chamber/src/Logger.js, lines 748-1174): input validation, the *)
(* priority-ordered detector chain, the per-pattern predictors, the result *)
(* cache, the history list and the performance metrics.                    *)
(*                                                                         *)
(* JavaScript numbers are modelled exactly: sequence elements are integers *)
(* and every derived number that may be fractional (a common ratio, a      *)
(* geometric prediction, the running average) is a normalised rational     *)
(* <<numerator, denominator>> with denominator > 0.  The JavaScript value  *)
(* null inside nextNumbers is the pair <<0, 0>>.  The descriptive strings  *)
(* of a result (formula, explanation) and its timestamp are left out; the  *)
(* measured analysisTime is a nondeterministic input.                      *)
(***************************************************************************)
EXTENDS Integers, Sequences, FiniteSets, TLC

VARIABLES
    history,             \* this.history: the list of successful results
    analysisCache,       \* this.analysisCache: cache key -> result
    performanceMetrics,  \* this.performanceMetrics
    call,                \* the last call made on the engine and its argument
    ret,                 \* what that call returned (or that it threw)
    calls,               \* analyze() calls completed since construction/clear()
    clearedKeys,         \* the cache keys that the last clear() removed
    heap,                \* the objects the engine and its caller share
    memories,            \* EchoChamber: this.memories
    currentEcho,         \* EchoChamber: this.currentEcho
    predicted            \* successful predictNext() calls since construction
                         \* or the last clearMemories()

vars ==
    <<history, analysisCache, performanceMetrics, call, ret, calls, clearedKeys,
      heap, memories, currentEcho, predicted>>

\* the legacy EchoChamber engine, which the SequenceAnalyzer never touches
echoVars == <<memories, currentEcho, predicted>>

---------------------------------------------------------------------------
(* Bounds of the model *)

\* longest sequence drawn for the detector chain
MaxLen == 4
\* sequence elements drawn for the detector chain: MinVal-window .. MaxVal
MaxVal == 3
\* number of values below zero in that window
NegVals == 2
\* the measured analysisTime of one analysis is one of 0 .. MaxTime
MaxTime == 1
\* analyze() calls made between two clear() calls
MaxCalls == 3
\* analyze() calls made by the caller that writes to the shared objects
MaxShared == 2
\* memories that the EchoChamber holds at most
MaxEchoes == 2

(* Program constants *)

\* mutant: a sixth level of differences is examined
maxLevels_OneMore == 5 + 1

\* detectPolynomial: const maxLevels = 5
maxLevels == 5
\* the number of predictions every detector asks for
predictionCount == 5
\* the tolerance 0.0001 of detectGeometric and detectFibonacci is 1/ToleranceDen
ToleranceDen == 10000
\* Math.round(last * 10000) / 10000 in predictGeometric
RoundScale == 10000

---------------------------------------------------------------------------
(* Exact arithmetic *)

Abs(x) == IF x < 0 THEN -x ELSE x

Sign(x) == IF x < 0 THEN -1 ELSE IF x = 0 THEN 0 ELSE 1

RECURSIVE Gcd(_, _)
Gcd(a, b) == IF b = 0 THEN a ELSE Gcd(b, a % b)

\* the rational n/d in lowest terms, d # 0
Rat(n, d) ==
    LET g == Gcd(Abs(n), Abs(d))
        s == Sign(d)
    IN  <<(s * n) \div g, (s * d) \div g>>

Int2Num(n) == <<n, 1>>

\* the JavaScript value null where a number is expected
Null == <<0, 0>>

\* a < b for rationals (denominators positive)
RatLess(a, b) == a[1] * b[2] < b[1] * a[2]

RatSub(a, b) == Rat(a[1] * b[2] - b[1] * a[2], a[2] * b[2])

RatAbs(a) == <<Abs(a[1]), a[2]>>

(* Natural numbers too large for one machine word, as little-endian        *)
(* sequences of limbs in base 1000: the powers a^(k+1) that the repeated   *)
(* multiplication of predictGeometric builds.                              *)
Limb == 10 * 10 * 10

RECURSIVE BigMulCarry(_, _, _)
BigMulCarry(n, m, carry) ==
    IF n = <<>>
    THEN IF carry = 0 THEN <<>>
         ELSE <<carry % Limb>> \o BigMulCarry(<<>>, m, carry \div Limb)
    ELSE LET t == Head(n) * m + carry
         IN  <<t % Limb>> \o BigMulCarry(Tail(n), m, t \div Limb)

BigMul(n, m) == BigMulCarry(n, m, 0)

\* long division by a small divisor: <<quotient, remainder>>, from the
\* most significant limb down
RECURSIVE BigDivFrom(_, _, _, _)
BigDivFrom(n, d, i, rem) ==
    IF i = 0 THEN <<<<>>, rem>>
    ELSE LET cur  == rem * Limb + n[i]
             rest == BigDivFrom(n, d, i - 1, cur % d)
         IN  <<rest[1] \o <<cur \div d>>, rest[2]>>

BigDiv(n, d) == BigDivFrom(n, d, Len(n), 0)

RECURSIVE BigToInt(_)
BigToInt(n) == IF n = <<>> THEN 0 ELSE Head(n) + Limb * BigToInt(Tail(n))

BigOfInt(n) == BigMul(<<1>>, n)

RECURSIVE BigPowTimes(_, _, _)
\* start * a^k
BigPowTimes(start, a, k) ==
    IF k = 0 THEN start ELSE BigPowTimes(BigMul(start, a), a, k - 1)

\* <<floor(n / d^k), whether the division was exact>>
RECURSIVE BigDivRepeat(_, _, _, _)
BigDivRepeat(n, d, k, exact) ==
    IF k = 0 THEN <<n, exact>>
    ELSE LET qr == BigDiv(n, d)
         IN  BigDivRepeat(qr[1], d, k - 1, exact /\ qr[2] = 0)

---------------------------------------------------------------------------
(* JavaScript values that a caller can pass to analyze()                   *)
(*                                                                         *)
(* An element is [t |-> typeof, c |-> class, v |-> integer].  A value is   *)
(* an array of elements or a single primitive that is not an array.        *)

Num(n)   == [t |-> "number", c |-> "finite",   v |-> n]
NaN      == [t |-> "number", c |-> "NaN",      v |-> 0]
Infinity == [t |-> "number", c |-> "Infinity", v |-> 1]
Str      == [t |-> "string", c |-> "text",     v |-> 0]
\* new Number(n): typeof is "object", JSON.stringify unwraps it
Boxed(n) == [t |-> "object", c |-> "Number",   v |-> n]
BigInt(n) == [t |-> "bigint", c |-> "finite",  v |-> n]

Arr(elems)     == [isArray |-> TRUE,  elems |-> elems]
NotArr(elem)   == [isArray |-> FALSE, elems |-> <<elem>>]
NumArr(ints)   == Arr([i \in 1..Len(ints) |-> Num(ints[i])])

\* the numbers of an array whose elements passed validation
Values(value) == [i \in 1..Len(value.elems) |-> value.elems[i].v]

(* JSON.stringify, token by token: a finite number prints as itself, NaN   *)
(* and +/-Infinity print as null, a string prints quoted, a Number object  *)
(* prints as the number it wraps.  A BigInt makes JSON.stringify throw.    *)
JsonToken(e) ==
    CASE e.t = "number" /\ e.c = "finite" -> [j |-> "number", v |-> e.v]
      [] e.t = "number"                   -> [j |-> "null",   v |-> 0]
      [] e.t = "string"                   -> [j |-> "string", v |-> e.v]
      [] e.t = "object"                   -> [j |-> "number", v |-> e.v]

JsonThrows(value) == \E i \in 1..Len(value.elems) : value.elems[i].t = "bigint"

JsonStringify(value) ==
    [array |-> value.isArray,
     text  |-> [i \in 1..Len(value.elems) |-> JsonToken(value.elems[i])]]

---------------------------------------------------------------------------
(* validateSequence *)

IsValidNumber(e) == e.t = "number" /\ e.c # "NaN" /\ e.c # "Infinity"

validateSequence(value) ==
    IF ~value.isArray
    THEN [isValid |-> FALSE, error |-> "NotAnArray"]
    ELSE IF Len(value.elems) < 2
    THEN [isValid |-> FALSE, error |-> "TooShort"]
    ELSE IF ~(\A i \in 1..Len(value.elems) : IsValidNumber(value.elems[i]))
    THEN [isValid |-> FALSE, error |-> "NonNumeric"]
    ELSE [isValid |-> TRUE, error |-> "none"]

---------------------------------------------------------------------------
(* Differences and predictors.  Sequences are 1-based here, 0-based in the *)
(* source: sequence[i] of the source is sequence[i + 1] below.             *)

calculateDifferences(sequence) ==
    [i \in 1..(Len(sequence) - 1) |-> sequence[i + 1] - sequence[i]]

Last(sequence) == sequence[Len(sequence)]

\* mutant: a single value does not count as constant
AllEqualFirst_NeedsTwo(list) ==
    Len(list) >= 2 /\ \A i \in 1..Len(list) : list[i] = list[1]

AllEqualFirst(list) == \A i \in 1..Len(list) : list[i] = list[1]

\* mutant: the loop pushes `last` before it adds the difference
RECURSIVE ArithmeticLoop_PushFirst(_, _, _)
ArithmeticLoop_PushFirst(last, difference, count) ==
    IF count = 0 THEN <<>>
    ELSE <<Int2Num(last)>>
             \o ArithmeticLoop_PushFirst(last + difference, difference, count - 1)

\* the loop "last += difference; predictions.push(last)"
RECURSIVE ArithmeticLoop(_, _, _)
ArithmeticLoop(last, difference, count) ==
    IF count = 0 THEN <<>>
    ELSE <<Int2Num(last + difference)>>
             \o ArithmeticLoop(last + difference, difference, count - 1)

predictArithmetic(sequence, count) ==
    LET differences == calculateDifferences(sequence)
    IN  ArithmeticLoop(Last(sequence), differences[1], count)

\* Math.round(a^(k+1) / b^k * RoundScale): the k-th value of `last` after
\* k multiplications by ratio = a / b, scaled and rounded half up
RoundedPower(a, b, k) ==
    LET sgn   == IF (Sign(a) < 0 /\ (k + 1) % 2 = 1) # (Sign(b) < 0 /\ k % 2 = 1)
                 THEN -1 ELSE 1
        top   == BigPowTimes(BigOfInt(2 * RoundScale), Abs(a), k + 1)
        fe    == BigDivRepeat(top, Abs(b), k, TRUE)
        f     == BigToInt(fe[1])
        g     == IF fe[2] THEN f ELSE f + 1
    IN  IF sgn > 0 THEN (f + 1) \div 2 ELSE -(g \div 2)

\* mutant: the loop pushes `last` before it multiplies by the ratio
predictGeometric_PushFirst(sequence, count) ==
    LET a == sequence[Len(sequence)]
        b == sequence[Len(sequence) - 1]
    IN  [k \in 1..count |-> Rat(RoundedPower(a, b, k - 1), RoundScale)]

predictGeometric(sequence, count) ==
    LET a == sequence[Len(sequence)]
        b == sequence[Len(sequence) - 1]
    IN  [k \in 1..count |-> Rat(RoundedPower(a, b, k), RoundScale)]

\* the loop "next = a + b; predictions.push(next); a = b; b = next"
RECURSIVE FibonacciLoop(_, _, _)
FibonacciLoop(a, b, count) ==
    IF count = 0 THEN <<>>
    ELSE <<Int2Num(a + b)>> \o FibonacciLoop(b, a + b, count - 1)

predictFibonacci(sequence, count) ==
    FibonacciLoop(sequence[Len(sequence) - 1], sequence[Len(sequence)], count)

\* "Build the complete difference table": rows 0 .. level+1 of the source
RECURSIVE BuildDiffTable(_, _, _)
BuildDiffTable(diffTable, i, level) ==
    IF i > level THEN diffTable
    ELSE LET diffs == calculateDifferences(Last(diffTable))
         IN  IF Len(diffs) = 0 THEN diffTable
             ELSE BuildDiffTable(Append(diffTable, diffs), i + 1, level)

\* "Work back up": for i = level-1 down to 0 push row[i].last + row[i+1].last
RECURSIVE WorkBackUp(_, _)
WorkBackUp(diffTable, i) ==
    IF i < 0 THEN diffTable
    ELSE LET prevLast == Last(diffTable[i + 1])
             diffLast == Last(diffTable[i + 2])
         IN  WorkBackUp([diffTable EXCEPT ![i + 1] = Append(@, prevLast + diffLast)],
                        i - 1)

\* "At the deepest level, add the constant difference": the source extends
\* row `level` (not row level+1) by a copy of its own last value
ExtendDeepest(diffTable, level, constantDiff) ==
    IF level + 1 <= Len(diffTable) /\ Len(diffTable[level + 1]) > 0
    THEN [diffTable EXCEPT ![level + 1] = Append(@, Last(@))]
    ELSE [diffTable EXCEPT ![level + 1] = Append(@, constantDiff)]

\* one round of the prediction loop
PredictStep(diffTable, level, constantDiff) ==
    WorkBackUp(ExtendDeepest(diffTable, level, constantDiff), level - 1)

RECURSIVE PredictLoop(_, _, _, _)
PredictLoop(diffTable, level, constantDiff, count) ==
    IF count = 0 THEN <<>>
    ELSE LET next == PredictStep(diffTable, level, constantDiff)
         IN  <<Int2Num(Last(next[1]))>>
                 \o PredictLoop(next, level, constantDiff, count - 1)

predictPolynomial(sequence, level, constantDiff, count) ==
    PredictLoop(BuildDiffTable(<<sequence>>, 0, level), level, constantDiff, count)

---------------------------------------------------------------------------
(* Detectors.  A detector that does not match returns {pattern: null}.     *)

NoPattern == [pattern |-> "null"]

IsArithmetic(sequence) == AllEqualFirst(calculateDifferences(sequence))

detectArithmetic(sequence) ==
    LET differences == calculateDifferences(sequence)
    IN  IF IsArithmetic(sequence)
        THEN [pattern          |-> "arithmetic",
              confidence       |-> 100,
              commonDifference |-> differences[1],
              nextNumbers      |-> predictArithmetic(sequence, predictionCount)]
        ELSE NoPattern

\* mutant: the guard looks at the first element only
HasZero_FirstOnly(sequence) == sequence[1] = 0

HasZero(sequence) == \E i \in 1..Len(sequence) : sequence[i] = 0

\* Math.abs(r - firstRatio) < tolerance for the i-th ratio
\* r = sequence[i + 1] / sequence[i], with the denominators cleared
RatioWithinTolerance(sequence, i) ==
    ToleranceDen * Abs(sequence[i + 1] * sequence[1] - sequence[2] * sequence[i])
        < Abs(sequence[i] * sequence[1])

IsGeometric(sequence) ==
    /\ ~HasZero(sequence)
    /\ \A i \in 1..(Len(sequence) - 1) : RatioWithinTolerance(sequence, i)

\* the numbers that detectGeometric divides by: none when the guard of
\* line 859 returns, else sequence[i - 1] for each ratio of the loop and,
\* on a match, sequence[length - 2] in predictGeometric (line 1021)
GeometricDivisors(sequence) ==
    IF HasZero(sequence) THEN <<>>
    ELSE [i \in 1..(Len(sequence) - 1) |-> sequence[i]]
            \o (IF IsGeometric(sequence)
                THEN <<sequence[Len(sequence) - 1]>> ELSE <<>>)

detectGeometric(sequence) ==
    IF IsGeometric(sequence)
    THEN [pattern     |-> "geometric",
          confidence  |-> 100,
          commonRatio |-> Rat(sequence[2], sequence[1]),
          nextNumbers |-> predictGeometric(sequence, predictionCount)]
    ELSE NoPattern

\* |sequence[i] - (sequence[i-1] + sequence[i-2])| < 0.0001
FibonacciStep(sequence, i) ==
    ToleranceDen * Abs(sequence[i] - (sequence[i - 1] + sequence[i - 2])) < 1

\* the loop of detectFibonacci: counts matches and stops at the first miss
RECURSIVE FibonacciMatchCount(_, _)
FibonacciMatchCount(sequence, i) ==
    IF i > Len(sequence) THEN 0
    ELSE IF FibonacciStep(sequence, i)
         THEN 1 + FibonacciMatchCount(sequence, i + 1)
         ELSE 0

\* mutant: the length guard of detectFibonacci is missing
IsFibonacci_NoLengthGuard(sequence) ==
    FibonacciMatchCount(sequence, 3) >= Len(sequence) - 2

IsFibonacci(sequence) ==
    /\ ~(Len(sequence) < 3)
    /\ FibonacciMatchCount(sequence, 3) >= Len(sequence) - 2

detectFibonacci(sequence) ==
    IF IsFibonacci(sequence)
    THEN [pattern     |-> "fibonacci",
          confidence  |-> 100,
          nextNumbers |-> predictFibonacci(sequence, predictionCount)]
    ELSE NoPattern

RECURSIVE PolynomialLoop(_, _, _)
PolynomialLoop(sequence, differences, level) ==
    IF ~(level < maxLevels) THEN NoPattern
    ELSE LET nextDiffs == calculateDifferences(differences)
         IN  IF Len(nextDiffs) = 0 THEN NoPattern
             ELSE IF AllEqualFirst(nextDiffs)
             THEN [pattern            |-> "polynomial",
                   degree             |-> level + 1,
                   confidence         |-> 95,
                   constantDifference |-> nextDiffs[1],
                   nextNumbers        |->
                       predictPolynomial(sequence, level, nextDiffs[1],
                                         predictionCount)]
             ELSE PolynomialLoop(sequence, nextDiffs, level + 1)

detectPolynomial(sequence) == PolynomialLoop(sequence, sequence, 0)

\* mutant: no pattern is reported with confidence 50
Unknown_HalfConfident ==
    [pattern |-> "unknown", confidence |-> 50, nextNumbers |-> <<Null>>]

\* mutant: no pattern is reported with an empty list of predictions
Unknown_NoPredictions ==
    [pattern |-> "unknown", confidence |-> 0, nextNumbers |-> <<>>]

Unknown ==
    [pattern |-> "unknown", confidence |-> 0, nextNumbers |-> <<Null>>]

\* "if (!result.pattern) result = ..."
OrElse(result, next) == IF result.pattern = "null" THEN next ELSE result

\* mutant: the polynomial detector is tried before the Fibonacci detector
DetectPattern_PolynomialFirst(sequence) ==
    OrElse(OrElse(OrElse(OrElse(detectArithmetic(sequence),
                                detectGeometric(sequence)),
                         detectPolynomial(sequence)),
                  detectFibonacci(sequence)),
           Unknown)

\* lines 784-804 of analyze(): the first detector that matches wins
DetectPattern(sequence) ==
    OrElse(OrElse(OrElse(OrElse(detectArithmetic(sequence),
                                detectGeometric(sequence)),
                         detectFibonacci(sequence)),
                  detectPolynomial(sequence)),
           Unknown)

---------------------------------------------------------------------------
(* The engine: analyze, updateMetrics, getHistory, getMetrics, clear,      *)
(* comparSequences.  An operation is a function of the engine's fields     *)
(* [history, analysisCache, performanceMetrics] and of the call's inputs.  *)

\* the result of an analysis is averaged over 0 .. MaxTime milliseconds
Times == 0..MaxTime

EmptyCache == [k \in {} |-> Unknown]

NewEngine ==
    [history            |-> <<>>,
     analysisCache      |-> EmptyCache,
     performanceMetrics |-> [totalAnalyses       |-> 0,
                             averageAnalysisTime |-> Int2Num(0),
                             cacheHits           |-> 0]]

\* EchoChamber.constructor (part_002, lines 26-29)
NewChamber == [memories |-> <<>>, currentEcho |-> "null"]

NoEchoes ==
    /\ memories = NewChamber.memories
    /\ currentEcho = NewChamber.currentEcho
    /\ predicted = 0

Returned(value) == [threw |-> FALSE, value |-> value]
Thrown == [threw |-> TRUE, value |-> "TypeError"]

updateMetrics(metrics, analysisTime) ==
    LET total   == metrics.totalAnalyses + 1
        prevAvg == metrics.averageAnalysisTime
    IN  [metrics EXCEPT
            !.totalAnalyses = total,
            !.averageAnalysisTime =
                Rat(prevAvg[1] * (total - 1) + analysisTime * prevAvg[2],
                    prevAvg[2] * total)]

\* mutant: a cache hit is appended to history like a fresh result
CacheHit_AppendsHistory(engine, cacheKey) ==
    [engine |-> [engine EXCEPT
                    !.performanceMetrics.cacheHits = @ + 1,
                    !.history = Append(@, engine.analysisCache[cacheKey])],
     ret    |-> Returned(engine.analysisCache[cacheKey])]

\* lines 768-773: the cache is consulted before the input is validated
CacheHit(engine, cacheKey) ==
    [engine |-> [engine EXCEPT !.performanceMetrics.cacheHits = @ + 1],
     ret    |-> Returned(engine.analysisCache[cacheKey])]

\* mutant: the rejection is recorded in history
ValidationFailure_Recorded(engine, ref, validation) ==
    [engine |-> [engine EXCEPT
                    !.history = Append(@, [success  |-> FALSE,
                                           error    |-> validation.error,
                                           sequence |-> ref])],
     ret    |-> Returned([success  |-> FALSE,
                          error    |-> validation.error,
                          sequence |-> ref])]

\* lines 775-782: a rejected input changes nothing
ValidationFailure(engine, ref, validation) ==
    [engine |-> engine,
     ret    |-> Returned([success  |-> FALSE,
                          error    |-> validation.error,
                          sequence |-> ref])]

\* mutant: the cache keeps the newest result only
StoreResult_SingleEntryCache(engine, cacheKey, analysisResult, analysisTime) ==
    [engine |->
        [history            |-> Append(engine.history, analysisResult),
         analysisCache      |-> (cacheKey :> analysisResult),
         performanceMetrics |->
             updateMetrics(engine.performanceMetrics, analysisTime)],
     ret    |-> Returned(analysisResult)]

\* mutant: a result is appended to history without being cached
StoreResult_NotCached(engine, cacheKey, analysisResult, analysisTime) ==
    [engine |->
        [history            |-> Append(engine.history, analysisResult),
         analysisCache      |-> engine.analysisCache,
         performanceMetrics |->
             updateMetrics(engine.performanceMetrics, analysisTime)],
     ret    |-> Returned(analysisResult)]

\* mutant: the result is put at the front of history
StoreResult_Prepends(engine, cacheKey, analysisResult, analysisTime) ==
    [engine |->
        [history            |-> <<analysisResult>> \o engine.history,
         analysisCache      |->
             (cacheKey :> analysisResult) @@ engine.analysisCache,
         performanceMetrics |->
             updateMetrics(engine.performanceMetrics, analysisTime)],
     ret    |-> Returned(analysisResult)]

\* lines 818-827: update the metrics, cache the result, append it to history
StoreResult(engine, cacheKey, analysisResult, analysisTime) ==
    [engine |->
        [history            |-> Append(engine.history, analysisResult),
         analysisCache      |->
             (cacheKey :> analysisResult) @@ engine.analysisCache,
         performanceMetrics |->
             updateMetrics(engine.performanceMetrics, analysisTime)],
     ret    |-> Returned(analysisResult)]

\* lines 784-827: detect, build the result, store it
FreshAnalysis(engine, ref, cacheKey, sequence, analysisTime) ==
    StoreResult(engine, cacheKey,
                [success        |-> TRUE,
                 sequence       |-> ref,
                 sequenceLength |-> Len(sequence),
                 analysisTime   |-> analysisTime] @@ DetectPattern(sequence),
                analysisTime)

\* analyze(sequence): `ref` is the identity of the caller's object, `value`
\* its contents, analysisTime the time the call measures
analyze(engine, ref, value, analysisTime) ==
    IF JsonThrows(value) THEN [engine |-> engine, ret |-> Thrown]
    ELSE LET cacheKey   == JsonStringify(value)
             validation == validateSequence(value)
         IN  IF cacheKey \in DOMAIN engine.analysisCache
             THEN CacheHit(engine, cacheKey)
             ELSE IF ~validation.isValid
             THEN ValidationFailure(engine, ref, validation)
             ELSE FreshAnalysis(engine, ref, cacheKey, Values(value), analysisTime)

\* a property of a result object; undefined when the object has none
Field(object, name) ==
    IF name \in DOMAIN object THEN object[name] ELSE "undefined"

Has(object, name) == name \in DOMAIN object

\* Math.abs(a - b) < 0.01 is 100 * |a - b| < 1
RatioToleranceDen == 100

\* mutant: the two bonuses are given together
calculateSimilarity_BothBonuses(analysis1, analysis2) ==
    IF Field(analysis1, "pattern") # Field(analysis2, "pattern") THEN 0
    ELSE IF /\ Has(analysis1, "commonDifference")
            /\ Has(analysis2, "commonDifference")
            /\ analysis1.commonDifference = analysis2.commonDifference
    THEN 100
    ELSE 50

\* mutant: the commonDifference bonus is given without comparing the values
calculateSimilarity_BonusForAnyDifference(analysis1, analysis2) ==
    IF Field(analysis1, "pattern") # Field(analysis2, "pattern") THEN 0
    ELSE IF /\ Has(analysis1, "commonDifference")
            /\ Has(analysis2, "commonDifference")
    THEN 75
    ELSE 50

calculateSimilarity(analysis1, analysis2) ==
    IF Field(analysis1, "pattern") # Field(analysis2, "pattern") THEN 0
    ELSE LET base == 50
             diffBonus ==
                 IF /\ Has(analysis1, "commonDifference")
                    /\ Has(analysis2, "commonDifference")
                    /\ analysis1.commonDifference = analysis2.commonDifference
                 THEN 25 ELSE 0
             ratioBonus ==
                 IF /\ Has(analysis1, "commonRatio")
                    /\ Has(analysis2, "commonRatio")
                    /\ RatLess(RatAbs(RatSub(analysis1.commonRatio,
                                             analysis2.commonRatio)),
                               Rat(1, RatioToleranceDen))
                 THEN 25 ELSE 0
             similarity == base + diffBonus + ratioBonus
         IN  IF similarity < 100 THEN similarity ELSE 100

\* lines 1140-1145: the comparison of two results
ComparisonOf(analysis1, analysis2) ==
    [sequence1   |-> analysis1,
     sequence2   |-> analysis2,
     samePattern |-> Field(analysis1, "pattern") = Field(analysis2, "pattern"),
     similarity  |-> calculateSimilarity(analysis1, analysis2)]

\* the second analyze() of comparSequences, on the engine the first one left
CompareSecond(first, second) ==
    IF second.ret.threw THEN second
    ELSE [engine |-> second.engine,
          ret    |-> Returned(ComparisonOf(first.ret.value, second.ret.value))]

CompareAfter(first, ref2, value2, time2) ==
    IF first.ret.threw THEN first
    ELSE CompareSecond(first, analyze(first.engine, ref2, value2, time2))

comparSequences(engine, ref1, value1, time1, ref2, value2, time2) ==
    CompareAfter(analyze(engine, ref1, value1, time1), ref2, value2, time2)

getHistory(engine) == Returned(engine.history)

getMetrics(engine) ==
    Returned([totalAnalyses       |-> engine.performanceMetrics.totalAnalyses,
              averageAnalysisTime |-> engine.performanceMetrics.averageAnalysisTime,
              cacheHits           |-> engine.performanceMetrics.cacheHits,
              cacheSize           |-> Cardinality(DOMAIN engine.analysisCache)])

\* mutant: clear() forgets to empty the cache
clear_KeepsCache(engine) ==
    [NewEngine EXCEPT !.analysisCache = engine.analysisCache]

clear(engine) == NewEngine

---------------------------------------------------------------------------
(* The engine as a state machine: one engine, driven by a caller that      *)
(* holds a few objects and passes them to the public methods.              *)

\* the caller's objects, by identity: 1 and 2 are two arrays with the same
\* contents
Objects ==
    <<NumArr(<<1, 2, 3>>),
      NumArr(<<1, 2, 3>>),
      NumArr(<<1, 2, 4>>),
      NumArr(<<1, 4, 9, 16, 25>>),
      NotArr(Str),
      NumArr(<<5>>),
      Arr(<<Num(1), NaN, Num(3)>>),
      Arr(<<Num(1), Boxed(2), Num(3)>>),
      Arr(<<Num(1), BigInt(2)>>)>>

Refs == DOMAIN Objects

Engine ==
    [history            |-> history,
     analysisCache      |-> analysisCache,
     performanceMetrics |-> performanceMetrics]

SetEngine(engine) ==
    /\ history' = engine.history
    /\ analysisCache' = engine.analysisCache
    /\ performanceMetrics' = engine.performanceMetrics

\* the caller's arrays that the engine may keep a reference to
HeapRefs == {1, 2}

\* the heap after construction: the caller's arrays, no result object yet,
\* this.history an empty list, this.analysisCache an empty map, and the
\* caller holding neither a list nor a result
NewHeap ==
    [arrays   |-> [ref \in HeapRefs |-> Objects[ref]],
     results  |-> <<>>,
     history  |-> <<>>,
     cache    |-> [k \in {} |-> 0],
     copy     |-> <<>>,
     held     |-> "none",
     returned |-> 0]

Init ==
    /\ history = NewEngine.history
    /\ analysisCache = NewEngine.analysisCache
    /\ performanceMetrics = NewEngine.performanceMetrics
    /\ call = [op |-> "new", refs |-> <<>>, args |-> <<>>]
    /\ ret = Returned("undefined")
    /\ calls = 0
    /\ clearedKeys = {}
    /\ heap = NewHeap
    /\ NoEchoes

\* the caller's view of a call that ended with `outcome`
Finish(op, refs, outcome, completed) ==
    /\ SetEngine(outcome.engine)
    /\ call' = [op |-> op, refs |-> refs, args |-> [i \in DOMAIN refs |-> Objects[refs[i]]]]
    /\ ret' = outcome.ret
    /\ calls' = calls + completed
    /\ UNCHANGED <<clearedKeys, heap, echoVars>>

Analyze ==
    \E ref \in Refs, analysisTime \in Times :
        /\ calls < MaxCalls
        /\ Finish("analyze", <<ref>>,
                  analyze(Engine, ref, Objects[ref], analysisTime),
                  IF JsonThrows(Objects[ref]) THEN 0 ELSE 1)

Compare ==
    \E ref1 \in Refs, ref2 \in Refs, time1 \in Times, time2 \in Times :
        /\ calls + 2 <= MaxCalls
        /\ Finish("compare", <<ref1, ref2>>,
                  comparSequences(Engine, ref1, Objects[ref1], time1,
                                  ref2, Objects[ref2], time2),
                  IF JsonThrows(Objects[ref1]) THEN 0
                  ELSE IF JsonThrows(Objects[ref2]) THEN 1 ELSE 2)

GetHistory ==
    /\ call' = [op |-> "getHistory", refs |-> <<>>, args |-> <<>>]
    /\ ret' = getHistory(Engine)
    /\ UNCHANGED <<history, analysisCache, performanceMetrics, calls, clearedKeys,
                   heap, echoVars>>

GetMetrics ==
    /\ call' = [op |-> "getMetrics", refs |-> <<>>, args |-> <<>>]
    /\ ret' = getMetrics(Engine)
    /\ UNCHANGED <<history, analysisCache, performanceMetrics, calls, clearedKeys,
                   heap, echoVars>>

Clear ==
    /\ SetEngine(clear(Engine))
    /\ call' = [op |-> "clear", refs |-> <<>>, args |-> <<>>]
    /\ ret' = Returned("undefined")
    /\ calls' = 0
    /\ clearedKeys' = DOMAIN analysisCache
    /\ UNCHANGED <<heap, echoVars>>

Next == Analyze \/ Compare \/ GetHistory \/ GetMetrics \/ Clear

Spec == Init /\ [][Next]_vars

---------------------------------------------------------------------------
(* The detector chain on its own: a new engine analyses one input, drawn   *)
(* from every array over a window of small integers and from the           *)
(* sequences the documentation and the tests use.                          *)

MinVal == 0 - NegVals

SeqsOfLen(n) == [1..n -> MinVal..MaxVal]

SmallSequences == UNION {SeqsOfLen(n) : n \in 0..MaxLen}

Examples ==
    {<<3, 6, 9, 12>>, <<2, 4, 8, 16>>, <<1, 3, 9, 27>>, <<1, 1, 2, 3, 5, 8>>,
     <<1, 4, 9, 16, 25>>, <<20, 15, 10, 5, 0>>, <<2, 2, 4, 6, 10>>,
     <<1, 8, 27, 64>>, <<2, 6, 12, 20, 30>>, <<7, 7, 7, 7>>, <<5, 10>>,
     <<0, 1, 1, 2, 3, 5>>, <<1, 2, 5, 14>>, <<8, 4, 2, 1>>, <<1, -2, 4, -8>>,
     <<101, 111, 122>>, <<1, 2, 4, 8, 16, 32, 65>>, <<1, 16, 81, 256, 625, 1296>>,
     <<0, 1, 32, 243, 1024, 3125, 7776>>, <<1, 2, 4, 8, 16, 33>>}

BadElements == {NaN, Infinity, Str, Boxed(2)}

Malformed ==
    {NotArr(Str), NotArr(Num(5))}
        \cup {Arr(<<Num(1), e>>) : e \in BadElements}
        \cup {Arr(<<e, Num(2), Num(3)>>) : e \in BadElements}
        \cup {Arr(<<e>>) : e \in BadElements}

FnInputs == {NumArr(s) : s \in SmallSequences \cup Examples} \cup Malformed

InitFn ==
    /\ history = NewEngine.history
    /\ analysisCache = NewEngine.analysisCache
    /\ performanceMetrics = NewEngine.performanceMetrics
    /\ \E value \in FnInputs : call = [op |-> "new", refs |-> <<0>>, args |-> <<value>>]
    /\ ret = Returned("undefined")
    /\ calls = 0
    /\ clearedKeys = {}
    /\ heap = NewHeap
    /\ NoEchoes

FinishFn(outcome) ==
    /\ SetEngine(outcome.engine)
    /\ call' = [call EXCEPT !.op = "analyze"]
    /\ ret' = outcome.ret
    /\ calls' = calls + (IF outcome.ret.threw THEN 0 ELSE 1)
    /\ UNCHANGED <<clearedKeys, heap, echoVars>>

AnalyzeFn ==
    \E analysisTime \in Times :
        /\ call.op = "new"
        /\ FinishFn(analyze(Engine, call.refs[1], call.args[1], analysisTime))

\* one private detector applied on its own to a sequence that passes
\* validation, as analyze() applies it
DetectorFn(name, result) ==
    /\ call.op = "new"
    /\ validateSequence(call.args[1]).isValid
    /\ call' = [call EXCEPT !.op = name]
    /\ ret' = Returned(result)
    /\ UNCHANGED <<history, analysisCache, performanceMetrics, calls, clearedKeys,
                   heap, echoVars>>

DetectFibonacciFn ==
    DetectorFn("detectFibonacci", detectFibonacci(Values(call.args[1])))

DetectPolynomialFn ==
    DetectorFn("detectPolynomial", detectPolynomial(Values(call.args[1])))

DetectGeometricFn ==
    DetectorFn("detectGeometric", detectGeometric(Values(call.args[1])))

NextFn ==
    AnalyzeFn \/ DetectFibonacciFn \/ DetectPolynomialFn \/ DetectGeometricFn

SpecFn == InitFn /\ [][NextFn]_vars

---------------------------------------------------------------------------
(* comparSequences on its own: a new engine compares one pair of inputs,   *)
(* drawn from the sequences of the comparison tests, pairs of sequences of *)
(* every pattern with equal, close and different parameters, and rejected  *)
(* inputs.                                                                 *)

CompareExamples ==
    {<<2, 4, 6, 8>>, <<5, 10, 15, 20>>, <<1, 3, 5, 7>>,
     <<2, 4, 8, 16>>, <<3, 6, 12, 24>>, <<1, 3, 9, 27>>,
     <<101, 111, 122>>, <<100, 110, 121>>,
     <<1, 1, 2, 3, 5, 8>>, <<2, 2, 4, 6, 10>>,
     <<1, 4, 9, 16, 25>>, <<1, 8, 27, 64>>,
     <<1, 2, 4, 8, 16, 32, 65>>, <<1, 2, 4, 8, 16, 32, 66>>,
     <<7, 7, 7, 7>>, <<5, 10>>}

CompareInputs ==
    {NumArr(s) : s \in CompareExamples}
        \cup {NotArr(Str), NumArr(<<5>>), Arr(<<Num(1), NaN>>),
              Arr(<<Num(2), Boxed(4), Num(6), Num(8)>>),
              Arr(<<Num(1), BigInt(2)>>)}

InitCmp ==
    /\ history = NewEngine.history
    /\ analysisCache = NewEngine.analysisCache
    /\ performanceMetrics = NewEngine.performanceMetrics
    /\ \E a \in CompareInputs, b \in CompareInputs :
          call = [op |-> "new", refs |-> <<1, 2>>, args |-> <<a, b>>]
    /\ ret = Returned("undefined")
    /\ calls = 0
    /\ clearedKeys = {}
    /\ heap = NewHeap
    /\ NoEchoes

FinishCmp(outcome) ==
    /\ SetEngine(outcome.engine)
    /\ call' = [call EXCEPT !.op = "compare"]
    /\ ret' = outcome.ret
    /\ calls' = IF JsonThrows(call.args[1]) THEN 0
                ELSE IF JsonThrows(call.args[2]) THEN 1 ELSE 2
    /\ UNCHANGED <<clearedKeys, heap, echoVars>>

CompareFn ==
    \E time1 \in Times, time2 \in Times :
        /\ call.op = "new"
        /\ FinishCmp(comparSequences(Engine, call.refs[1], call.args[1], time1,
                                     call.refs[2], call.args[2], time2))

NextCmp == CompareFn

SpecCmp == InitCmp /\ [][NextCmp]_vars

---------------------------------------------------------------------------
(* Claims about the detector chain, checked under SpecFn                   *)

\* the input of the call, as a sequence of numbers
Input == Values(call.args[1])

Analyzed == call.op = "analyze" /\ ~ret.threw

Succeeded == Analyzed /\ ret.value.success

\* the value that continues `row` when its g-th differences stay constant:
\* Newton's forward-difference extrapolation
RECURSIVE NewtonNext(_, _)
NewtonNext(row, g) ==
    IF g = 0 THEN Last(row)
    ELSE Last(row) + NewtonNext(calculateDifferences(row), g - 1)

RECURSIVE NewtonExtend(_, _, _)
NewtonExtend(row, g, count) ==
    IF count = 0 THEN <<>>
    ELSE <<Int2Num(NewtonNext(row, g))>>
             \o NewtonExtend(Append(row, NewtonNext(row, g)), g, count - 1)

\* C1: a sequence classified polynomial of degree g is continued by the
\* five values that keep its g-th differences constant; [1,4,9,16,25] has
\* degree 2 and is continued by 36, 49, 64, 81, 100.
C1_NewtonExtrapolation ==
    /\ (Succeeded /\ ret.value.pattern = "polynomial")
          => ret.value.nextNumbers
                = NewtonExtend(Input, ret.value.degree, predictionCount)
    /\ (Succeeded /\ Input = <<1, 4, 9, 16, 25>>)
          => /\ ret.value.pattern = "polynomial"
             /\ ret.value.degree = 2
             /\ ret.value.nextNumbers
                   = <<<<36, 1>>, <<49, 1>>, <<64, 1>>, <<81, 1>>, <<100, 1>>>>

MatchesPolynomial(sequence) == detectPolynomial(sequence).pattern # "null"

FirstMatch(sequence) ==
    IF IsArithmetic(sequence) THEN "arithmetic"
    ELSE IF IsGeometric(sequence) THEN "geometric"
    ELSE IF IsFibonacci(sequence) THEN "fibonacci"
    ELSE IF MatchesPolynomial(sequence) THEN "polynomial"
    ELSE "unknown"

ConstantDifference(sequence, d) ==
    \A i \in 1..(Len(sequence) - 1) : sequence[i + 1] - sequence[i] = d

\* C3: a sequence whose consecutive differences all equal d is reported
\* arithmetic with commonDifference d and five predictions last + k*d.
C3_ArithmeticPrediction ==
    (Succeeded /\ ConstantDifference(Input, Input[2] - Input[1]))
        => /\ ret.value.pattern = "arithmetic"
           /\ ret.value.commonDifference = Input[2] - Input[1]
           /\ Len(ret.value.nextNumbers) = 5
           /\ \A k \in 1..5 :
                 ret.value.nextNumbers[k]
                    = Int2Num(Last(Input) + k * (Input[2] - Input[1]))

\* C3 witness: [20,15,10,5,0] was analysed and continued by -5.
C3_Witness ==
    /\ Succeeded
    /\ Input = <<20, 15, 10, 5, 0>>
    /\ ret.value.commonDifference = -5
    /\ ret.value.nextNumbers[1] = Int2Num(-5)

\* every element is the one before times sequence[2]/sequence[1]
ExactlyGeometric(sequence) ==
    /\ ~HasZero(sequence)
    /\ \A i \in 1..(Len(sequence) - 1) :
          sequence[i + 1] * sequence[1] = sequence[2] * sequence[i]

\* |prediction - last * r| < 1e-4, r = sequence[2]/sequence[1]
FirstPredictionClose(sequence, prediction) ==
    RatLess(RatAbs(RatSub(prediction,
                          Rat(Last(sequence) * sequence[2], sequence[1]))),
            Rat(1, ToleranceDen))

GeometricAsClaimed ==
    /\ ret.value.pattern = "geometric"
    /\ FirstPredictionClose(Input, ret.value.nextNumbers[1])

\* C4 as stated: every geometric sequence without zero elements is reported
\* geometric, its first prediction within 1e-4 of last * r.
C4_Original ==
    (Succeeded /\ ExactlyGeometric(Input)) => GeometricAsClaimed

\* C4 as amended: every geometric sequence without zero elements that is not
\* also arithmetic (so of three or more elements and of ratio other than 1)
\* is reported geometric, its first prediction within 1e-4 of last * r.
C4_GeometricUnlessArithmetic ==
    (Succeeded /\ ExactlyGeometric(Input)
               /\ ~ConstantDifference(Input, Input[2] - Input[1]))
        => GeometricAsClaimed

\* C4 witness: a geometric sequence of fractional ratio was reported
\* geometric with a fractional first prediction.
C4_Witness ==
    /\ Succeeded
    /\ ExactlyGeometric(Input)
    /\ ret.value.pattern = "geometric"
    /\ ret.value.nextNumbers[1][2] > 1

SumOfTwoBefore(sequence) ==
    \A i \in 3..Len(sequence) :
        ToleranceDen * Abs(sequence[i] - (sequence[i - 1] + sequence[i - 2])) < 1

---------------------------------------------------------------------------
(* Claims about the engine, checked under Spec                             *)

\* the error the validation rules give a malformed input, "none" otherwise
ExpectedError(value) ==
    IF ~value.isArray THEN "NotAnArray"
    ELSE IF Len(value.elems) \in {0, 1} THEN "TooShort"
    ELSE IF \E i \in 1..Len(value.elems) :
                ~(value.elems[i].t = "number" /\ value.elems[i].c = "finite")
    THEN "NonNumeric"
    ELSE "none"

\* C6: analyze() never throws and rejects a malformed input with
\* success = false, the error of the first rule it breaks (NotAnArray, then
\* TooShort, then NonNumeric) and no pattern, confidence or predictions.
C6_MalformedRejected ==
    (call.op = "analyze" /\ ExpectedError(call.args[1]) # "none")
        => /\ ~ret.threw
           /\ ret.value.success = FALSE
           /\ ret.value.error = ExpectedError(call.args[1])
           /\ DOMAIN ret.value = {"success", "error", "sequence"}

\* the cache key of the argument of the call that a step makes
KeyAfter == JsonStringify(call'.args[1])

\* C7: once analyze(s) has succeeded, its result stays cached until clear(),
\* and an analyze() of the same values returns that result unchanged, adds
\* exactly one to cacheHits and leaves history and cache as they were.
C7_ServedFromCache ==
    [][/\ (call'.op = "analyze" /\ ~ret'.threw /\ ret'.value.success)
             => /\ KeyAfter \in DOMAIN analysisCache'
                /\ analysisCache'[KeyAfter] = ret'.value
       /\ call'.op # "clear"
             => \A k \in DOMAIN analysisCache :
                   /\ k \in DOMAIN analysisCache'
                   /\ analysisCache'[k] = analysisCache[k]
       /\ (/\ call'.op = "analyze"
           /\ validateSequence(call'.args[1]).isValid
           /\ KeyAfter \in DOMAIN analysisCache)
             => /\ ret' = Returned(analysisCache[KeyAfter])
                /\ performanceMetrics'.cacheHits = performanceMetrics.cacheHits + 1
                /\ history' = history
                /\ analysisCache' = analysisCache]_vars

\* C7 witness: a second array with the values of an array analysed before
\* was served the result made for the first.
C7_Witness ==
    /\ call.op = "analyze"
    /\ ~ret.threw
    /\ ret.value.success
    /\ ret.value.sequence # call.refs[1]
    /\ Objects[ret.value.sequence] = call.args[1]
    /\ performanceMetrics.cacheHits = 1
    /\ Len(history) = 1

\* C8: totalAnalyses is the number of analyze() calls completed since
\* construction or the last clear(), cache hits and rejected inputs included.
C8_TotalCountsEveryCall ==
    /\ performanceMetrics.totalAnalyses = calls
    /\ call.op = "getMetrics" => ret.value.totalAnalyses = calls

\* C9: an analyze() that fails validation leaves cache and history as they
\* were, and neither ever holds a result with success = false.
C9_FailureStoresNothing ==
    [][/\ (call'.op = "analyze" /\ ~ret'.threw /\ ~ret'.value.success)
             => /\ history' = history
                /\ analysisCache' = analysisCache
       /\ \A i \in DOMAIN history' : history'[i].success
       /\ \A k \in DOMAIN analysisCache' : analysisCache'[k].success]_vars

\* C9 witness: an input was rejected while history and cache held a result.
C9_Witness ==
    /\ call.op = "analyze"
    /\ ~ret.threw
    /\ ~ret.value.success
    /\ Len(history) > 0
    /\ DOMAIN analysisCache # {}

\* C10: clear() empties history and cache and zeroes the metrics in one
\* step, getHistory() and getMetrics() then report it, and an analyze() of a
\* sequence cached before the clear is a fresh analysis: no cache hit, one
\* history entry appended.
C10_ClearResets ==
    [][/\ call'.op = "clear"
             => /\ history' = <<>>
                /\ DOMAIN analysisCache' = {}
                /\ performanceMetrics'.totalAnalyses = 0
                /\ performanceMetrics'.cacheHits = 0
                /\ performanceMetrics'.averageAnalysisTime = Int2Num(0)
       /\ (call.op = "clear" /\ call'.op = "getHistory")
             => ret'.value = <<>>
       /\ (call.op = "clear" /\ call'.op = "getMetrics")
             => /\ ret'.value.totalAnalyses = 0
                /\ ret'.value.cacheHits = 0
                /\ ret'.value.cacheSize = 0
       /\ (/\ call.op = "clear"
           /\ call'.op = "analyze"
           /\ validateSequence(call'.args[1]).isValid
           /\ KeyAfter \in clearedKeys)
             => /\ ret'.value.success
                /\ performanceMetrics'.cacheHits = 0
                /\ history' = <<ret'.value>>
                /\ DOMAIN analysisCache' = {KeyAfter}]_vars

\* C10 witness: right after a clear() that removed its cache entry and reset
\* a non-zero average, a sequence was analysed afresh.
C10_Witness ==
    /\ call.op = "analyze"
    /\ ~ret.threw
    /\ ret.value.success
    /\ JsonStringify(call.args[1]) \in clearedKeys
    /\ calls = 1
    /\ Len(history) = 1
    /\ performanceMetrics.cacheHits = 0
    /\ performanceMetrics.totalAnalyses = 1

\* the step's analyze() of `value` made a new result: it succeeded and no
\* entry of `cache` has the key of `value`
IsFresh(result, value, cache) ==
    /\ result.success
    /\ JsonStringify(value) \notin DOMAIN cache

IsPrefix(s, t) ==
    /\ Len(s) <= Len(t)
    /\ \A i \in 1..Len(s) : t[i] = s[i]

\* C11: history lists the fresh successful analyses since the last clear(),
\* oldest first: a fresh successful analyze() appends its result at the end,
\* any other analyze() and the accessors leave history as it is, compare()
\* appends the fresh ones of its two results in the order a, b, and
\* getHistory() returns the list in that order.
C11_HistoryInCallOrder ==
    [][/\ (call'.op = "analyze" /\ ~ret'.threw)
             => history' = IF IsFresh(ret'.value, call'.args[1], analysisCache)
                           THEN Append(history, ret'.value)
                           ELSE history
       /\ call'.op \in {"getHistory", "getMetrics"} => history' = history
       /\ call'.op = "getHistory" => ret'.value = history
       /\ call'.op # "clear" => IsPrefix(history, history')
       /\ (call'.op = "compare" /\ ~ret'.threw)
             => history'
                  = history
                      \o (IF IsFresh(ret'.value.sequence1, call'.args[1],
                                     analysisCache)
                          THEN <<ret'.value.sequence1>> ELSE <<>>)
                      \o (IF /\ IsFresh(ret'.value.sequence2, call'.args[2],
                                        analysisCache)
                             /\ ret'.value.sequence2 # ret'.value.sequence1
                          THEN <<ret'.value.sequence2>> ELSE <<>>)]_vars

\* C11 witness: getHistory() returned two entries, the older first, after
\* three analyze() calls of which one was served from the cache.
C11_Witness ==
    /\ call.op = "getHistory"
    /\ calls = 3
    /\ performanceMetrics.cacheHits = 1
    /\ Len(ret.value) = 2
    /\ ret.value[1].sequence = 3
    /\ ret.value[2].sequence = 1

---------------------------------------------------------------------------
(* The engine and its caller sharing objects.  JavaScript passes and      *)
(* stores arrays and objects by reference: heap.arrays are the caller's   *)
(* arrays, heap.results the result objects made so far (an object's       *)
(* identity is its index), heap.history and heap.cache the references     *)
(* that this.history and this.analysisCache hold, heap.copy the list that *)
(* getHistory() made, heap.held the list the caller got from it and       *)
(* heap.returned the result object that the last analyze() handed out.    *)
(* The variables history and analysisCache show what those references     *)
(* lead to at the moment.                                                  *)

\* the engine's fields, read through the references it holds
HeapView(h, metrics) ==
    [history            |-> [i \in 1..Len(h.history) |-> h.results[h.history[i]]],
     analysisCache      |-> [k \in DOMAIN h.cache |-> h.results[h.cache[k]]],
     performanceMetrics |-> metrics]

\* lines 809-827: one result object is made; the cache, the history and
\* the caller each get a reference to it
HeapStore(h, cacheKey, analysisResult) ==
    [h EXCEPT !.results  = Append(@, analysisResult),
              !.history  = Append(@, Len(h.results) + 1),
              !.cache    = (cacheKey :> (Len(h.results) + 1)) @@ @,
              !.returned = Len(h.results) + 1]

\* what analyze(value) with the by-value `outcome` does to the heap: a
\* cache hit hands out the cached object itself (line 772), a rejection a
\* new object that the engine keeps no reference to (lines 777-781)
HeapAnalyze(h, value, outcome) ==
    IF outcome.ret.threw THEN h
    ELSE IF JsonStringify(value) \in DOMAIN h.cache
    THEN [h EXCEPT !.returned = h.cache[JsonStringify(value)]]
    ELSE IF ~outcome.ret.value.success
    THEN [h EXCEPT !.returned = 0]
    ELSE HeapStore(h, JsonStringify(value), outcome.ret.value)

\* mutant: getHistory() returns this.history itself
HeapGetHistory_ReturnsOwnList(h) == [h EXCEPT !.held = "engine"]

\* line 1107: [...this.history] is a new list of the same references
HeapGetHistory(h) == [h EXCEPT !.copy = h.history, !.held = "copy"]

\* the list that the caller holds, and the heap after the caller has
\* written `list` to it
HeldList(h) == IF h.held = "engine" THEN h.history ELSE h.copy

WriteHeldList(h, list) ==
    IF h.held = "engine" THEN [h EXCEPT !.history = list]
    ELSE [h EXCEPT !.copy = list]

Reverse(list) == [i \in 1..Len(list) |-> list[Len(list) + 1 - i]]

\* the result objects the caller has a reference to
HeldResults(h) ==
    ({h.returned} \ {0})
        \cup (IF h.held = "none" THEN {}
              ELSE {HeldList(h)[i] : i \in 1..Len(HeldList(h))})

\* the state after a step that left the heap as `h` and the metrics as
\* `metrics`, seen by the caller as call `op` returning `result`
HeapFinish(op, refs, args, h, metrics, result) ==
    /\ heap' = h
    /\ SetEngine(HeapView(h, metrics))
    /\ call' = [op |-> op, refs |-> refs, args |-> args]
    /\ ret' = result
    /\ UNCHANGED <<clearedKeys, echoVars>>

AnalyzeSharedAs(ref, value, outcome) ==
    HeapFinish("analyze", <<ref>>, <<value>>,
               HeapAnalyze(heap, value, outcome),
               outcome.engine.performanceMetrics, outcome.ret)

\* the time an analysis measures has no part in what is shared
SharedTimes == {0}

\* analyze(a): a is one of the caller's arrays, as it is now
AnalyzeShared ==
    \E ref \in HeapRefs, analysisTime \in SharedTimes :
        /\ calls < MaxShared
        /\ calls' = calls + 1
        /\ AnalyzeSharedAs(ref, heap.arrays[ref],
                           analyze(Engine, ref, heap.arrays[ref], analysisTime))

\* getHistory(): the caller keeps the list it gets
GetHistoryShared ==
    /\ HeapFinish("getHistory", <<>>, <<>>, HeapGetHistory(heap),
                  performanceMetrics, getHistory(Engine))
    /\ UNCHANGED calls

\* the values the caller writes into an array it passed to analyze()
Written == {3, 4}

\* the caller assigns to the last element of one of its arrays
MutateArray ==
    \E ref \in HeapRefs, v \in Written :
        /\ heap.arrays[ref].elems[3] # Num(v)
        /\ HeapFinish("mutateArray", <<ref>>, <<>>,
                      [heap EXCEPT !.arrays[ref].elems[3] = Num(v)],
                      performanceMetrics, Returned("undefined"))
        /\ UNCHANGED calls

\* the caller assigns to the confidence field of a result object it got
\* from analyze() or found in the list getHistory() gave it
MutateResult ==
    \E id \in HeldResults(heap) :
        /\ heap.results[id].confidence # 0
        /\ HeapFinish("mutateResult", <<id>>, <<>>,
                      [heap EXCEPT !.results[id].confidence = 0],
                      performanceMetrics, Returned("undefined"))
        /\ UNCHANGED calls

MutateListAs(op, list) ==
    /\ HeapFinish("mutateList", <<>>, <<op>>, WriteHeldList(heap, list),
                  performanceMetrics, Returned("undefined"))
    /\ UNCHANGED calls

\* the caller pushes a result onto the list getHistory() gave it, pops its
\* last element or reverses it
MutateList ==
    /\ heap.held # "none"
    /\ \/ /\ heap.returned # 0
          /\ Len(HeldList(heap)) <= MaxShared
          /\ MutateListAs("push", Append(HeldList(heap), heap.returned))
       \/ /\ Len(HeldList(heap)) > 0
          /\ MutateListAs("pop", SubSeq(HeldList(heap), 1, Len(HeldList(heap)) - 1))
       \/ /\ Reverse(HeldList(heap)) # HeldList(heap)
          /\ MutateListAs("reverse", Reverse(HeldList(heap)))

NextShared ==
    \/ AnalyzeShared
    \/ GetHistoryShared
    \/ MutateArray
    \/ MutateResult
    \/ MutateList

SpecShared == Init /\ [][NextShared]_vars

---------------------------------------------------------------------------
(* Claims about shared objects, checked under SpecShared                   *)

\* C12: the list getHistory() returns is not the engine's list: when the
\* caller pushes onto it, pops from it or reverses it, the entries that
\* getHistory() returns afterwards (the variable history) and their order
\* stay as they were; getHistory() itself returns the engine's entries and
\* changes none.
C12_ReturnedListIndependent ==
    [][/\ call'.op = "mutateList"
             => /\ history' = history
                /\ getHistory(Engine)' = getHistory(Engine)
       /\ call'.op = "getHistory"
             => /\ ret' = Returned(history)
                /\ history' = history]_vars

\* C12 witness: the caller reversed a returned list of two entries, which
\* now differs from the engine's list of the same two entries.
C12_Witness ==
    /\ call.op = "mutateList"
    /\ call.args = <<"reverse">>
    /\ Len(history) = 2
    /\ Len(heap.copy) = 2
    /\ heap.copy # heap.history

\* the sequences that the results in `results` record, as they read now
RecordedSequences(results, h) ==
    [x \in DOMAIN results |-> h.arrays[results[x].sequence]]

\* C16: when the caller writes to an array it passed to analyze(), the
\* sequences recorded in history and in the cached results stay as they
\* were, and every cached result still records the sequence that its cache
\* key was built from.
C16_EngineKeepsOwnCopy ==
    [][call'.op = "mutateArray"
          => /\ RecordedSequences(history', heap')
                   = RecordedSequences(history, heap)
             /\ RecordedSequences(analysisCache', heap')
                   = RecordedSequences(analysisCache, heap)
             /\ \A k \in DOMAIN analysisCache' :
                   JsonStringify(heap'.arrays[analysisCache'[k].sequence]) = k]_vars

\* C18: only analyze(), compare() and clear() change what history and the
\* cache hold: after the caller has assigned to a field of a result that
\* analyze() returned or that it found in a list from getHistory(), a
\* cache-hit analyze() and getHistory() return what they returned before.
C18_OnlyEngineChangesResults ==
    [][call'.op \notin {"analyze", "compare", "clear"}
          => /\ history' = history
             /\ analysisCache' = analysisCache]_vars

---------------------------------------------------------------------------
(* Claims about comparSequences, checked under SpecCmp and Spec            *)

Compared == call.op = "compare" /\ ~ret.threw

\* |n1/d1 - n2/d2| < 0.01 for two fractions with positive denominators
RatiosWithinHundredth(r1, r2) ==
    100 * Abs(r1[1] * r2[2] - r2[1] * r1[2]) < r1[2] * r2[2]

\* the score that the similarity rule gives two results
SimilarityRule(result1, result2) ==
    IF Field(result1, "pattern") # Field(result2, "pattern") THEN 0
    ELSE 50
         + (IF /\ "commonDifference" \in DOMAIN result1
               /\ "commonDifference" \in DOMAIN result2
               /\ result1.commonDifference = result2.commonDifference
            THEN 25 ELSE 0)
         + (IF /\ "commonRatio" \in DOMAIN result1
               /\ "commonRatio" \in DOMAIN result2
               /\ RatiosWithinHundredth(result1.commonRatio, result2.commonRatio)
            THEN 25 ELSE 0)

SwappedComparison ==
    comparSequences(Engine, call'.refs[2], call'.args[2], 0,
                    call'.refs[1], call'.args[1], 0).ret.value

\* C14: in every engine state compare(a, b) and compare(b, a) report the
\* same samePattern and the same similarity.
C14_CompareSymmetric ==
    [][(call'.op = "compare" /\ ~ret'.threw)
          => /\ ret'.value.samePattern = SwappedComparison.samePattern
             /\ ret'.value.similarity = SwappedComparison.similarity]_vars

\* the cache entries made from an array with the contents of `value`
EntriesOfSameContents(value, cache) ==
    {k \in DOMAIN cache : Objects[cache[k].sequence] = value}

\* C15: an analyze() is served from a cache entry if and only if that entry
\* was made from an array of the same length with the same values in the
\* same order, whichever array object holds them.
C15_KeyByValueAndOrder ==
    [][(call'.op = "analyze" /\ ~ret'.threw)
          => /\ (KeyAfter \in DOMAIN analysisCache)
                   <=> (EntriesOfSameContents(call'.args[1], analysisCache) # {})
             /\ KeyAfter \in DOMAIN analysisCache
                   => /\ ret'.value = analysisCache[KeyAfter]
                      /\ Objects[ret'.value.sequence] = call'.args[1]]_vars

---------------------------------------------------------------------------
(* More claims about the detector chain, checked under SpecFn              *)

MatchesNone(sequence) ==
    /\ ~IsArithmetic(sequence)
    /\ ~IsGeometric(sequence)
    /\ ~IsFibonacci(sequence)
    /\ ~MatchesPolynomial(sequence)

\* C17: a valid sequence that no detector matches is a successful analysis
\* with pattern 'unknown', confidence 0 and predictions [null], and it is
\* cached under its key and appended to history.
C17_UnknownIsSuccess ==
    (/\ Analyzed
     /\ validateSequence(call.args[1]).isValid
     /\ MatchesNone(Input))
        => /\ ret.value.success = TRUE
           /\ ret.value.pattern = "unknown"
           /\ ret.value.confidence = 0
           /\ ret.value.nextNumbers = <<Null>>
           /\ history = <<ret.value>>
           /\ DOMAIN analysisCache = {JsonStringify(call.args[1])}
           /\ analysisCache[JsonStringify(call.args[1])] = ret.value
           /\ performanceMetrics.totalAnalyses = 1

\* C17 witness: [1,2,4,8,16,32,65] matched no detector and its result was
\* stored.
C17_Witness ==
    /\ Succeeded
    /\ Input = <<1, 2, 4, 8, 16, 32, 65>>
    /\ MatchesNone(Input)
    /\ ret.value.pattern = "unknown"
    /\ Len(history) = 1

\* the n-th successive differences of a sequence
RECURSIVE DiffLevel(_, _)
DiffLevel(sequence, n) ==
    IF n = 0 THEN sequence
    ELSE LET below == DiffLevel(sequence, n - 1)
         IN  [i \in 1..(Len(below) - 1) |-> below[i + 1] - below[i]]

AllSame(row) == Len(row) > 0 /\ \A i \in 1..Len(row) : row[i] = row[1]

ConstantAt(sequence, n) == AllSame(DiffLevel(sequence, n))

\* the first of the difference levels 1 .. 5 that is constant, 0 if none is
RECURSIVE FirstConstantFrom(_, _)
FirstConstantFrom(sequence, n) ==
    IF n > 5 THEN 0
    ELSE IF ConstantAt(sequence, n) THEN n
    ELSE FirstConstantFrom(sequence, n + 1)

FirstConstantLevel(sequence) == FirstConstantFrom(sequence, 1)

\* C19: detectPolynomial looks at no more than five levels of differences:
\* it reports polynomial with degree the first level (1 .. 5) whose
\* differences are all equal and constantDifference their value, and no
\* match when none of the five is constant; [1,8,27,64] has degree 3.
C19_PolynomialWithinFiveLevels ==
    call.op = "detectPolynomial"
        => /\ IF ret.value.pattern = "null"
              THEN FirstConstantLevel(Input) = 0
              ELSE /\ ret.value.pattern = "polynomial"
                   /\ ret.value.degree = FirstConstantLevel(Input)
                   /\ ret.value.degree \in 1..5
                   /\ ret.value.constantDifference
                         = DiffLevel(Input, ret.value.degree)[1]
           /\ Input = <<1, 8, 27, 64>> => ret.value.degree = 3

\* C19 witness: the sixth differences of [1,2,4,8,16,32,65] are constant,
\* none of the first five is, and detectPolynomial reported no match.
C19_Witness ==
    /\ call.op = "detectPolynomial"
    /\ Input = <<1, 2, 4, 8, 16, 32, 65>>
    /\ ConstantAt(Input, 6)
    /\ FirstConstantLevel(Input) = 0
    /\ ret.value.pattern = "null"

\* Math.round(last * (p/q)^k * 10000), rounding half up
RoundedTerm(last, p, q, k) ==
    LET negative == ((IF last < 0 THEN 1 ELSE 0)
                        + k * (IF p < 0 THEN 1 ELSE 0)
                        + k * (IF q < 0 THEN 1 ELSE 0)) % 2 = 1
        top == BigPowTimes(BigMul(BigOfInt(2 * 10000), Abs(last)), Abs(p), k)
        fe  == BigDivRepeat(top, Abs(q), k, TRUE)
        f   == BigToInt(fe[1])
    IN  IF negative THEN -((IF fe[2] THEN f ELSE f + 1) \div 2)
        ELSE (f + 1) \div 2

\* C20: a result with pattern 'geometric' has commonRatio r = s[2]/s[1]
\* and, for k = 1..5, k-th prediction last(s) * r^k rounded to four
\* decimal places.
C20_PredictsWithCommonRatio ==
    (Succeeded /\ ret.value.pattern = "geometric")
        => /\ ret.value.commonRatio = Rat(Input[2], Input[1])
           /\ Len(ret.value.nextNumbers) = 5
           /\ \A k \in 1..5 :
                 ret.value.nextNumbers[k]
                    = Rat(RoundedTerm(Last(Input), Input[2], Input[1], k), 10000)

---------------------------------------------------------------------------
(* Claims about the zero guard, confidence and the unknown pattern,        *)
(* checked under SpecFn                                                    *)

ContainsZero(sequence) == 0 \in {sequence[i] : i \in 1..Len(sequence)}

\* C21: a sequence with an element equal to 0 is never classified
\* geometric, by analyze() or by detectGeometric on its own, which returns
\* no match for it without dividing; no division of geometric detection
\* has 0 as its divisor.
C21_ZeroNeverGeometric ==
    /\ (Succeeded /\ ContainsZero(Input)) => ret.value.pattern # "geometric"
    /\ call.op = "detectGeometric"
          => /\ ContainsZero(Input)
                   => /\ ret.value = [pattern |-> "null"]
                      /\ GeometricDivisors(Input) = <<>>
             /\ \A i \in 1..Len(GeometricDivisors(Input)) :
                   GeometricDivisors(Input)[i] # 0

\* C21 witness: detectGeometric was applied to [2,0], whose only ratio is
\* 0, and returned no match.
C21_Witness ==
    /\ call.op = "detectGeometric"
    /\ Input = <<2, 0>>
    /\ ret.value.pattern = "null"

\* the confidence that goes with a pattern
ConfidenceOf(pattern) ==
    CASE pattern \in {"arithmetic", "geometric", "fibonacci"} -> 100
      [] pattern = "polynomial"                               -> 95
      [] pattern = "unknown"                                  -> 0

\* C22: in every successful result that analyze() returns and in every
\* history entry the confidence is the one of its pattern: 100 for
\* arithmetic, geometric and fibonacci, 95 for polynomial, 0 for unknown.
C22_ConfidenceByPattern ==
    /\ Succeeded => ret.value.confidence = ConfidenceOf(ret.value.pattern)
    /\ \A i \in 1..Len(history) :
          history[i].confidence = ConfidenceOf(history[i].pattern)

\* C22 witness: a polynomial result with confidence 95 is in history.
C22_Witness ==
    /\ Succeeded
    /\ ret.value.pattern = "polynomial"
    /\ ret.value.confidence = 95
    /\ history = <<ret.value>>

---------------------------------------------------------------------------
(* More claims about comparSequences, checked under SpecCmp and Spec       *)

HasBoth(result) ==
    /\ "commonDifference" \in DOMAIN result
    /\ "commonRatio" \in DOMAIN result

---------------------------------------------------------------------------
(* More claims about the engine, checked under Spec                        *)

\* C24: the cache never stands in for validation: whatever the cache
\* holds, analyze() of an input that validateSequence rejects returns
\* success = false.
C24_ValidationBeforeCache ==
    (/\ call.op = "analyze"
     /\ ~ret.threw
     /\ ~validateSequence(call.args[1]).isValid)
        => ret.value.success = FALSE

\* C25: between two clear() calls nothing shrinks: every analyze(),
\* compare(), getHistory() and getMetrics() leaves history length, cache
\* size, totalAnalyses and cacheHits at least as large as they were, every
\* history entry in its place and every cache entry under its key.
C25_GrowsUntilClear ==
    [][call'.op \in {"analyze", "compare", "getHistory", "getMetrics"}
          => /\ Len(history') >= Len(history)
             /\ Cardinality(DOMAIN analysisCache')
                   >= Cardinality(DOMAIN analysisCache)
             /\ performanceMetrics'.totalAnalyses
                   >= performanceMetrics.totalAnalyses
             /\ performanceMetrics'.cacheHits >= performanceMetrics.cacheHits
             /\ \A i \in 1..Len(history) : history'[i] = history[i]
             /\ \A k \in DOMAIN analysisCache :
                   /\ k \in DOMAIN analysisCache'
                   /\ analysisCache'[k] = analysisCache[k]]_vars

\* C25 witness: a compare() added a second entry to a history and a cache
\* of one entry and counted a cache hit.
C25_Witness ==
    /\ call.op = "compare"
    /\ ~ret.threw
    /\ calls = 3
    /\ Len(history) = 2
    /\ Cardinality(DOMAIN analysisCache) = 2
    /\ performanceMetrics.cacheHits = 1
    /\ performanceMetrics.totalAnalyses = 2

\* C26: history has as many entries as the cache, which is the cacheSize
\* that getMetrics() reports, and no two history entries are for sequences
\* with the same contents.
C26_HistoryMatchesCache ==
    /\ Len(history) = Cardinality(DOMAIN analysisCache)
    /\ call.op = "getMetrics" => ret.value.cacheSize = Len(history)
    /\ \A i \in 1..Len(history) : \A j \in 1..Len(history) :
          Objects[history[i].sequence] = Objects[history[j].sequence] => i = j

\* C26 witness: getMetrics() reported a cache of two entries after three
\* analyze() calls, two of them on arrays with the same contents.
C26_Witness ==
    /\ call.op = "getMetrics"
    /\ ret.value.cacheSize = 2
    /\ Len(history) = 2
    /\ calls = 3
    /\ performanceMetrics.cacheHits = 1

\* C27: cacheHits never exceeds totalAnalyses, so the hit rate
\* cacheHits / totalAnalyses is at most 100%.
C27_HitsWithinTotal ==
    performanceMetrics.cacheHits <= performanceMetrics.totalAnalyses

\* C28: compare() reports samePattern = true or a similarity above 0 only
\* when validation accepts both inputs; when it rejects either of them,
\* or both, compare() reports samePattern = false and similarity 0.
C28_FailureNeverSimilar ==
    (/\ Compared
     /\ \/ ~validateSequence(call.args[1]).isValid
        \/ ~validateSequence(call.args[2]).isValid)
        => /\ ret.value.samePattern = FALSE
           /\ ret.value.similarity = 0

---------------------------------------------------------------------------
(* The legacy EchoChamber engine (src/unnamed/part_002, lines 22-158):     *)
(* validateSequence, predictNext, getEchoCount, getAllMemories and         *)
(* clearMemories.  Its validation accepts every element whose typeof is    *)
(* 'number' and that is not NaN, +/-Infinity included, so subtraction,     *)
(* addition and === follow IEEE 754 on the element records.                *)

NegInfinity == [t |-> "number", c |-> "Infinity", v |-> -1]

JsNeg(a) ==
    IF a.c = "NaN" THEN NaN ELSE [a EXCEPT !.v = -a.v]

JsAdd(a, b) ==
    IF a.c = "NaN" \/ b.c = "NaN" THEN NaN
    ELSE IF a.c = "finite" /\ b.c = "finite" THEN Num(a.v + b.v)
    ELSE IF a.c = "Infinity" /\ b.c = "Infinity"
    THEN IF a.v = b.v THEN a ELSE NaN
    ELSE IF a.c = "Infinity" THEN a ELSE b

JsSub(a, b) == JsAdd(a, JsNeg(b))

\* a === b on numbers: NaN equals nothing
JsStrictEquals(a, b) == a.c # "NaN" /\ b.c # "NaN" /\ a = b

\* lines 62-64: the differences of consecutive elements
EchoDifferences(elems) ==
    [i \in 1..(Len(elems) - 1) |-> JsSub(elems[i + 1], elems[i])]

\* lines 55 and 68: the tests of the two every() calls
EchoIsNumber(elem) == elem.t = "number" /\ elem.c # "NaN"

EchoIsProgression(differences) ==
    \A i \in 1..Len(differences) : JsStrictEquals(differences[i], differences[1])

\* EchoChamber.validateSequence; the error is named after its message
EchoValidateSequence(value) ==
    IF ~value.isArray
    THEN [isValid |-> FALSE, error |-> "NotAnArray"]
    ELSE IF Len(value.elems) < 2
    THEN [isValid |-> FALSE, error |-> "TooFaint"]
    ELSE IF ~\A i \in 1..Len(value.elems) : EchoIsNumber(value.elems[i])
    THEN [isValid |-> FALSE, error |-> "Distorted"]
    ELSE IF ~EchoIsProgression(EchoDifferences(value.elems))
    THEN [isValid |-> FALSE, error |-> "NoHarmony"]
    ELSE [isValid          |-> TRUE,
          error            |-> "null",
          commonDifference |-> EchoDifferences(value.elems)[1]]

\* lines 112-121: the record of a prediction, with its own copy of the
\* sequence
EchoRecord(elems, commonDifference) ==
    [originalSequence |-> elems,
     commonDifference |-> commonDifference,
     prediction       |-> JsAdd(Last(elems), commonDifference),
     confidence       |-> 100]

\* lines 107-135: remember the echo and report it
EchoRemember(chamber, echoRecord) ==
    [chamber |-> [memories    |-> Append(chamber.memories, echoRecord),
                  currentEcho |-> echoRecord],
     ret     |-> Returned(
         [success          |-> TRUE,
          prediction       |-> echoRecord.prediction,
          commonDifference |-> echoRecord.commonDifference,
          echoNumber       |-> Len(chamber.memories) + 1,
          analysis         |->
              [sequenceLength   |-> Len(echoRecord.originalSequence),
               firstNumber      |-> echoRecord.originalSequence[1],
               lastNumber       |-> Last(echoRecord.originalSequence),
               commonDifference |-> echoRecord.commonDifference]])]

\* lines 96-104: a rejected sequence
EchoRejected(chamber, validation) ==
    [chamber |-> chamber,
     ret     |-> Returned([success    |-> FALSE,
                           error      |-> validation.error,
                           prediction |-> "null"])]

PredictNextAfter(chamber, value, validation) ==
    IF ~validation.isValid THEN EchoRejected(chamber, validation)
    ELSE EchoRemember(chamber,
                      EchoRecord(value.elems, validation.commonDifference))

predictNext(chamber, value) ==
    PredictNextAfter(chamber, value, EchoValidateSequence(value))

getEchoCount(chamber) == Returned(Len(chamber.memories))

getAllMemories(chamber) == Returned(chamber.memories)

\* mutant: clearMemories() forgets the current echo only
clearMemories_KeepsMemories(chamber) == [chamber EXCEPT !.currentEcho = "null"]

clearMemories(chamber) == NewChamber

\* the chamber held by the variables
Chamber == [memories |-> memories, currentEcho |-> currentEcho]

analyzerVars ==
    <<history, analysisCache, performanceMetrics, calls, clearedKeys, heap>>

\* the sequences of testCases (lines 250-281) and of runErrorHandlingTests
\* (lines 320-360), and sequences with elements that are no finite numbers
EchoInputs ==
    { NumArr(<<3, 6, 9, 12>>), NumArr(<<20, 15, 10, 5>>),
      NumArr(<<7, 7, 7, 7>>), NumArr(<<5, 10>>),
      NotArr(Str), NumArr(<<5>>), NumArr(<<1, 2, 4, 8>>),
      Arr(<<Num(1), Str, Num(3), Num(4)>>), Arr(<<>>),
      Arr(<<Num(1), NaN, Num(3)>>), Arr(<<Num(1), Boxed(2), Num(3)>>),
      Arr(<<BigInt(1), BigInt(2)>>),
      Arr(<<Num(1), Infinity>>), Arr(<<Infinity, Infinity>>),
      Arr(<<NegInfinity, Num(1), Infinity>>) }

\* `predicted` counts the calls of predictNext() that reported success
\* since the last clearMemories()
PredictNextAs(value, outcome) ==
    /\ Len(outcome.chamber.memories) <= MaxEchoes
    /\ memories' = outcome.chamber.memories
    /\ currentEcho' = outcome.chamber.currentEcho
    /\ predicted' = IF outcome.ret.value.success THEN predicted + 1 ELSE predicted
    /\ call' = [op |-> "predictNext", refs |-> <<>>, args |-> <<value>>]
    /\ ret' = outcome.ret
    /\ UNCHANGED analyzerVars

PredictNext ==
    \E value \in EchoInputs : PredictNextAs(value, predictNext(Chamber, value))

GetEchoCount ==
    /\ call' = [op |-> "getEchoCount", refs |-> <<>>, args |-> <<>>]
    /\ ret' = getEchoCount(Chamber)
    /\ UNCHANGED <<echoVars, analyzerVars>>

GetAllMemories ==
    /\ call' = [op |-> "getAllMemories", refs |-> <<>>, args |-> <<>>]
    /\ ret' = getAllMemories(Chamber)
    /\ UNCHANGED <<echoVars, analyzerVars>>

ClearMemories ==
    /\ memories' = clearMemories(Chamber).memories
    /\ currentEcho' = clearMemories(Chamber).currentEcho
    /\ predicted' = 0
    /\ call' = [op |-> "clearMemories", refs |-> <<>>, args |-> <<>>]
    /\ ret' = Returned("undefined")
    /\ UNCHANGED analyzerVars

NextEcho ==
    \/ PredictNext
    \/ GetEchoCount
    \/ GetAllMemories
    \/ ClearMemories

SpecEcho == Init /\ [][NextEcho]_vars

\* an array of at least two numbers whose consecutive differences are all
\* the same
IsProgression(value) ==
    /\ value.isArray
    /\ Len(value.elems) >= 2
    /\ \A i \in 1..Len(value.elems) : value.elems[i].t = "number"
    /\ \A i, j \in 1..(Len(value.elems) - 1) :
           JsStrictEquals(JsSub(value.elems[i + 1], value.elems[i]),
                          JsSub(value.elems[j + 1], value.elems[j]))

PredictsProgression(value) ==
    /\ ret'.value.success
    /\ ret'.value.commonDifference = JsSub(value.elems[2], value.elems[1])
    /\ ret'.value.prediction =
           JsAdd(Last(value.elems), ret'.value.commonDifference)
    /\ Len(memories') = Len(memories) + 1
    /\ SubSeq(memories', 1, Len(memories)) = memories
    /\ Last(memories').originalSequence = value.elems
    /\ Last(memories').prediction = ret'.value.prediction
    /\ ret'.value.echoNumber = Len(memories')

RejectsSequence ==
    /\ ~ret'.value.success
    /\ ret'.value.prediction = "null"
    /\ memories' = memories

PredictNextRule ==
    /\ call'.op = "predictNext"
           => IF IsProgression(call'.args[1])
              THEN PredictsProgression(call'.args[1])
              ELSE RejectsSequence
    /\ call'.op = "predictNext" => ~ret'.threw
    /\ call'.op = "getEchoCount" => ret' = Returned(predicted')

\* C30: in the EchoChamber, getEchoCount() is the number of predictNext()
\* calls that succeeded since the last clearMemories(); predictNext() on an
\* arithmetic sequence succeeds with prediction = last + commonDifference,
\* appends exactly one memory and reports the new count as echoNumber, and
\* on a non-array, an array of fewer than 2 elements, an array with a
\* non-number element or a non-arithmetic sequence it returns success false
\* with prediction null and leaves the memories as they were.
C30_EchoCountIsSuccesses ==
    [](Len(memories) = predicted) /\ [][PredictNextRule]_vars

C30_Witness ==
    /\ call.op = "getEchoCount"
    /\ ret.value = 1
    /\ predicted = 1
    /\ memories[1].prediction = Num(15)

=============================================================================
